---- MODULE Spec2Model ----
(***************************************************************************)
(* A model of c4group.py: the C4Group archive codec (header obfuscation,   *)
(* directory load/save, lazy content access) and its filesystem bridge     *)
(* (explode / pack).  Byte strings are sequences of 0..255, 1-based here   *)
(* and 0-based in the source; a Python slice b[a:c] is Slice(b, a, c).     *)
(***************************************************************************)
EXTENDS Integers, Sequences, FiniteSets, TLC

VARIABLES
    hdr,        \* decryptHeader: the input byte string
    hdrOut1,    \* decryptHeader: result of the first application
    hdrOut2,    \* decryptHeader: result of applying it to the first result
    hdrPc,      \* "in" | "once" | "twice"
    poked,      \* number of single-byte edits made to hdr
    stream,     \* the decompressed archive bytes behind fileobj
    cursor,     \* fileobj.tell()
    ent,        \* a C4GroupFile object on its own (content accessor)
    got,        \* result of the last read of ent.content
    streamOps,  \* seek/read calls the last read of ent.content made on fileobj
    lastSet,    \* bytes most recently assigned to ent.content and not deleted since
    nOps,       \* number of accessor operations performed
    timeT,    \* the platform's time_t: "time32" or "time64"
    shape,      \* the tree the archive in stream was built from
    tree,       \* the root C4GroupDirectory object
    pc,         \* position of the client: "new", "loaded", "saved", ...
    err,        \* the exception the last operation raised, or "none"
    saved,      \* bytes returned by save()
    tree2,      \* the root C4GroupDirectory loaded from saved
    err2,       \* the exception that load raised, or "none"
    fs,         \* the filesystem: absolute path -> [kind, data]
    cwd,        \* the process's working directory, an absolute path
    archive,    \* the filename the root directory object was constructed with
    denied,     \* the filesystem refuses to rename the archive
    fs0,        \* the filesystem before explode() was called
    fsPre,      \* the filesystem when pack() was called
    treePre,    \* the tree when pack() was called
    edits,      \* number of edits made to the exploded tree
    packs       \* number of calls of pack()

obfVars == <<hdr, hdrOut1, hdrOut2, hdrPc, poked>>
accVars == <<ent, got, streamOps, lastSet, nOps>>
codecVars == <<timeT, shape, tree, pc, err, saved, tree2, err2>>
fsVars == <<fs, cwd, archive, denied, fs0, fsPre, treePre, edits, packs>>
vars == <<obfVars, stream, cursor, accVars, codecVars, fsVars>>

(***************************************************************************)
(* Results of operations that may raise.                                   *)
(***************************************************************************)
Ok(v) == [ok |-> TRUE, err |-> "none", val |-> v]
Raise(e) == [ok |-> FALSE, err |-> e, val |-> <<>>]
NoResult == [ok |-> FALSE, err |-> "notrun", val |-> <<>>]

Min(a, b) == IF a < b THEN a ELSE b
Max(a, b) == IF a < b THEN b ELSE a

(***************************************************************************)
(* Python integers are unbounded.  Big stands for every value of 2^31 - 1  *)
(* and above: such a value is larger than any stream position or length    *)
(* that occurs, and does not fit struct's "<i".  Sums and products         *)
(* saturate at Big.                                                        *)
(***************************************************************************)
Big == 2147483647
SatAdd(a, b) == IF a >= Big - b THEN Big ELSE a + b
SatMul(a, b) == IF a = 0 \/ b = 0 THEN 0 ELSE IF a > Big \div b THEN Big ELSE a * b

(***************************************************************************)
(* Bytes.                                                                  *)
(***************************************************************************)
RECURSIVE Xor(_, _)
Xor(a, b) ==
    IF a = 0 THEN b
    ELSE IF b = 0 THEN a
    ELSE (((a % 2) + (b % 2)) % 2) + (2 * Xor(a \div 2, b \div 2))

HeaderLen == 204
XorKey == 237

(***************************************************************************)
(* C4GroupDirectory.decryptHeader                                          *)
(***************************************************************************)
\* the swap loop with i += 2 in place of i += 3: overlapping swaps, not an
\* involution; C2_Involution is also tried against it
RECURSIVE SwapLoopStride2(_, _)
SwapLoopStride2(h, i) ==
    IF i + 2 < Len(h)
    THEN SwapLoopStride2([h EXCEPT ![i + 1] = h[i + 3], ![i + 3] = h[i + 1]], i + 2)
    ELSE h

\* while (i+2) < len(header): header[i], header[i+2] = header[i+2], header[i]; i += 3
RECURSIVE SwapLoop(_, _)
SwapLoop(h, i) ==
    IF i + 2 < Len(h)
    THEN SwapLoop([h EXCEPT ![i + 1] = h[i + 3], ![i + 3] = h[i + 1]], i + 3)
    ELSE h

\* while i < len(header): header[i] = header[i] ^ 0xED
XorWithKey == [a \in 0..255 |-> Xor(a, XorKey)]
XorLoop(h) == [k \in 1..Len(h) |-> XorWithKey[h[k]]]

decryptHeader(h) ==
    IF Len(h) # HeaderLen
    THEN Raise("C4GroupError")
    ELSE Ok(XorLoop(SwapLoop(h, 0)))

(***************************************************************************)
(* C4GroupFile: the object and its content property.  __content is either  *)
(* None (mset = FALSE) or a byte string.                                   *)
(***************************************************************************)
EntrySize == 316

NoContent == [mset |-> FALSE, mbytes |-> <<>>]
SomeContent(b) == [mset |-> TRUE, mbytes |-> b]

\* b[a:c] of Python, for 0 <= a
Slice(b, a, c) == IF a >= Len(b) THEN <<>> ELSE SubSeq(b, a + 1, Min(c, Len(b)))

\* content_pos: (parent.content_pos + 204 + 316 * parent.count + offset_to_file)
\* if self.parent else 0.  The value is never None.
ContentPos(hasParent, parentPos, parentCount, off) ==
    IF hasParent
    THEN [none |-> FALSE,
          v |-> SatAdd(SatAdd(parentPos, HeaderLen),
                       SatAdd(SatMul(EntrySize, parentCount), off))]
    ELSE [none |-> FALSE, v |-> 0]

\* if self.__content: a byte string is true iff it is not empty
Truthy(c) == c.mset /\ Len(c.mbytes) > 0

\* The content getter.  cp is the entry's content_pos, size its size field,
\* cur the stream cursor on entry.  ops counts the calls made on fileobj.
ContentGet(c, cp, size, hasFileobj, strm, cur) ==
    IF Truthy(c)
    THEN [ok |-> TRUE, err |-> "none", val |-> c.mbytes, cursor |-> cur, ops |-> 0]
    ELSE IF cp.none
    THEN [ok |-> FALSE, err |-> "C4GroupError", val |-> <<>>, cursor |-> cur, ops |-> 0]
    ELSE IF ~hasFileobj
    THEN [ok |-> FALSE, err |-> "AttributeError", val |-> <<>>, cursor |-> cur, ops |-> 0]
    ELSE LET data == Slice(strm, cp.v, SatAdd(cp.v, size))
         IN  IF Len(data) # size
             \* struct.unpack("<{size}s", ...) needs exactly size bytes
             THEN [ok |-> FALSE, err |-> "struct.error", val |-> <<>>,
                   cursor |-> Min(cp.v, Len(strm)) + Len(data), ops |-> 3]
             ELSE [ok |-> TRUE, err |-> "none", val |-> data, cursor |-> cur, ops |-> 4]

\* The content setter: only bytes and bytearray values are stored.
ContentSet(c, isBytes, value) == IF isBytes THEN SomeContent(value) ELSE c

\* The content deleter.
ContentDel(c) == NoContent

NoEntry ==
    [hasParent |-> FALSE, parentPos |-> 0, parentCount |-> 0, hasFileobj |-> FALSE,
     size |-> 0, offset_to_file |-> 0, mcontent |-> NoContent]

EntContentPos(e) == ContentPos(e.hasParent, e.parentPos, e.parentCount, e.offset_to_file)

(***************************************************************************)
(* struct / int helpers.                                                   *)
(***************************************************************************)
\* bytearray(n)
ZeroBlock == [k \in 1..316 |-> 0]
Zeros(n) == IF n <= Len(ZeroBlock) THEN SubSeq(ZeroBlock, 1, n) ELSE [k \in 1..n |-> 0]

\* n.to_bytes(w, "little") for 0 <= n < 256^w
LE(n, w) == [k \in 1..w |-> (n \div (256 ^ (k - 1))) % 256]

\* int.from_bytes(b, "little"); the empty string gives 0
RECURSIVE FromLE(_)
FromLE(b) == IF Len(b) = 0 THEN 0 ELSE SatAdd(b[1], SatMul(256, FromLE(Tail(b))))

\* struct "<i" of a value that is never negative here: struct.error from 2^31
FitsI32(n) == 0 <= n /\ n < Big
PackI32(n) == LE(n, 4)

\* struct "<ns": truncated or NUL-padded to n bytes
PadTo(b, n) == IF Len(b) >= n THEN SubSeq(b, 1, n) ELSE b \o Zeros(n - Len(b))

\* b"%d" % n packed with "<c": one ASCII digit, struct.error for anything longer
FitsChar(n) == 0 <= n /\ n <= 9
DigitChar(n) == <<48 + n>>

\* struct.pack_into(fmt, buf, off, ...) for a packed value b that fits in buf
PackInto(buf, off, b) ==
    SubSeq(buf, 1, off) \o b \o SubSeq(buf, off + Len(b) + 1, Len(buf))

\* buf[a:c] = v on a bytearray: the slice bounds are clamped to the buffer
SliceAssign(buf, a, c, v) ==
    LET lo == Min(a, Len(buf))
        hi == Max(lo, Min(c, Len(buf)))
    IN  SubSeq(buf, 1, lo) \o v \o SubSeq(buf, hi + 1, Len(buf))

\* b.replace(b"\x00", b"")
NotNul(x) == x # 0
StripNul(b) == SelectSeq(b, NotNul)

(***************************************************************************)
(* time.localtime / time.mktime.  A struct_time is a day number and the    *)
(* second of the day in the local zone; the class default of the time      *)
(* field is the integer 0, which is not a struct_time.                     *)
(***************************************************************************)
SecondsPerDay == 86400

TimeDefault == [st |-> FALSE, day |-> 0, sec |-> 0]

\* time.localtime(t), in the zone UTC.  Where time_t has 32 bits it raises
\* for t >= 2^31; where it has 64 bits every 4-byte value is accepted.
Representable(t, platform) == platform = "time64" \/ t < Big

localtime(t, platform) ==
    IF ~Representable(t, platform)
    THEN Raise("OverflowError")
    ELSE Ok([st |-> TRUE, day |-> t \div SecondsPerDay, sec |-> t % SecondsPerDay])

\* int(time.mktime(tm))
mktime(tm) ==
    IF ~tm.st
    THEN Raise("TypeError")
    ELSE Ok(SatAdd(tm.day * SecondsPerDay, tm.sec))

(***************************************************************************)
(* The objects.  One record shape serves C4GroupFile and C4GroupDirectory; *)
(* a leaf keeps the directory fields at their class defaults.  The two     *)
(* version numbers and the CRC are kept as the 4 bytes struct reads and    *)
(* writes them as ("<i" and "<I" are bijections with 4-byte strings).      *)
(***************************************************************************)
OriginalMagic == 1234567
\* b"RedWolf Design GrpFolder"
Magic == <<82, 101, 100, 87, 111, 108, 102, 32, 68, 101, 115, 105, 103, 110, 32,
           71, 114, 112, 70, 111, 108, 100, 101, 114>>

NewFile(name, sz, off, tm, exe, crcFlag, crc) ==
    [isDir |-> FALSE, filename |-> name, size |-> sz, offset_to_file |-> off,
     time |-> tm, is_executable |-> exe, CRC_flag |-> crcFlag, CRC |-> crc,
     mcontent |-> NoContent,
     count |-> 0, author |-> <<>>, version |-> <<Zeros(4), Zeros(4)>>, original |-> FALSE,
     content |-> <<>>]

\* C4GroupDirectory.__init__: self.content = list()
NewDirectory(name, sz, off, tm, exe, crcFlag, crc) ==
    [NewFile(name, sz, off, tm, exe, crcFlag, crc) EXCEPT !.isDir = TRUE]

RootDirectory == NewDirectory(<<>>, 0, 0, TimeDefault, 0, 0, Zeros(4))

\* content_pos of a child of the directory at content position pos
ChildPos(pos, cnt, off) == ContentPos(TRUE, pos, cnt, off).v

(***************************************************************************)
(* C4GroupDirectory.load / loadEntryCore                                   *)
(***************************************************************************)
LoadOk(d) == [ok |-> TRUE, err |-> "none", node |-> d]
LoadErr(e, d) == [ok |-> FALSE, err |-> e, node |-> d]

\* The header fields as load() assigns them; the time is assigned inside
\* try/except, so a failing localtime leaves the field as it was.
LoadHeaderFields(d, header, platform) ==
    LET tm == localtime(FromLE(Slice(header, 104, 108)), platform)
    IN  [d EXCEPT
            !.count = FromLE(Slice(header, 36, 40)),
            !.author = StripNul(Slice(header, 40, 72)),
            !.version = <<Slice(header, 28, 32), Slice(header, 32, 36)>>,
            !.time = IF tm.ok THEN tm.val ELSE d.time,
            !.original = (FromLE(Slice(header, 108, 112)) = OriginalMagic)]

\* The object loadEntryCore constructs from one 316-byte record; the time is
\* converted outside any try block.
EntryFromCore(entrycore, platform) ==
    LET tm == localtime(FromLE(Slice(entrycore, 280, 284)), platform)
        isDir == FromLE(Slice(entrycore, 264, 268)) # 0
        make(t) ==
            (IF isDir THEN NewDirectory(StripNul(Slice(entrycore, 0, 257)), 0, 0, t, 0, 0, Zeros(4))
                      ELSE NewFile(StripNul(Slice(entrycore, 0, 257)), 0, 0, t, 0, 0, Zeros(4)))
    IN  IF Len(Slice(entrycore, 0, 257)) # 257
        THEN LoadErr("struct.error", RootDirectory)
        ELSE IF ~tm.ok
        THEN LoadErr(tm.err, RootDirectory)
        ELSE LoadOk([make(tm.val) EXCEPT
                        !.size = FromLE(Slice(entrycore, 268, 272)),
                        !.offset_to_file = FromLE(Slice(entrycore, 276, 280)),
                        !.is_executable = FromLE(Slice(entrycore, 284, 285)),
                        !.CRC_flag = FromLE(Slice(entrycore, 284, 285)),
                        !.CRC = PadTo(Slice(entrycore, 285, 289), 4)])

RECURSIVE Load(_, _, _, _)
RECURSIVE LoadEntries(_, _, _, _, _)

\* for i in range(self.count): self.loadEntryCore(self.content_pos + 204 + 316 * i)
\* d is the directory so far, pos its content_pos, i the loop index.
LoadEntries(d, pos, strm, platform, i) ==
    IF i >= d.count
    THEN LoadOk(d)
    ELSE LET position == SatAdd(SatAdd(pos, HeaderLen), EntrySize * i)
             e == EntryFromCore(Slice(strm, position, SatAdd(position, EntrySize)), platform)
         IN  IF ~e.ok
             THEN LoadErr(e.err, d)
             ELSE LET sub == IF e.node.isDir
                             THEN Load(e.node, ChildPos(pos, d.count, e.node.offset_to_file),
                                       strm, platform)
                             ELSE e
                  IN  IF ~sub.ok
                      THEN LoadErr(sub.err, d)
                      ELSE LoadEntries([d EXCEPT !.content = Append(@, sub.node)],
                                       pos, strm, platform, i + 1)

\* load() of the directory object d whose content_pos is pos
Load(d, pos, strm, platform) ==
    LET header == decryptHeader(Slice(strm, pos, SatAdd(pos, HeaderLen)))
    IN  IF ~header.ok
        THEN LoadErr(header.err, d)
        ELSE LoadEntries(LoadHeaderFields(d, header.val, platform), pos, strm, platform, 0)

(***************************************************************************)
(* C4GroupDirectory.save / saveEntryCore / saveContent                     *)
(***************************************************************************)
SaveOk(b, d) == [ok |-> TRUE, err |-> "none", bytes |-> b, node |-> d]
SaveErr(e, d) == [ok |-> FALSE, err |-> e, bytes |-> <<>>, node |-> d]

\* The 204-byte header of save(), before obfuscation.
SaveHeader(d) ==
    LET t == mktime(d.time)
    IN  IF ~FitsI32(d.count)
        THEN Raise("struct.error")
        ELSE IF ~t.ok
        THEN Raise(t.err)
        ELSE IF ~FitsI32(t.val)
        THEN Raise("struct.error")
        ELSE LET t0 == PackInto(Zeros(HeaderLen), 0, PadTo(Magic, 25))
                 t1 == PackInto(t0, 28, d.version[1] \o d.version[2])
                 t2 == PackInto(t1, 36, PackI32(d.count))
                 t3 == PackInto(t2, 40, PadTo(d.author, 32))
                 t4 == PackInto(t3, 104, PackI32(t.val))
                 t5 == PackInto(t4, 108, PackI32(IF d.original THEN OriginalMagic ELSE 0))
             IN  Ok(t5)

\* saveEntryCore(f, temp): temp grows by 316 bytes and the fields are packed
\* at 204 + their offset whatever the number of records already there, in the
\* order of the source.
SaveEntryCore(f, temp) ==
    LET t == mktime(f.time)
        grown == temp \o Zeros(EntrySize)
        at == HeaderLen
    IN  IF ~FitsI32(f.size)
        THEN Raise("struct.error")
        ELSE IF ~t.ok
        THEN Raise(t.err)
        ELSE IF ~(FitsI32(t.val) /\ FitsChar(f.CRC_flag) /\ FitsChar(f.is_executable))
        THEN Raise("struct.error")
        ELSE LET r0 == PackInto(grown, at + 0, PadTo(f.filename, 257))
                 r1 == PackInto(r0, at + 257, Zeros(3))
                 r2 == PackInto(r1, at + 260, PackI32(1))
                 r3 == PackInto(r2, at + 264, PackI32(IF f.isDir THEN 1 ELSE 0))
                 r4 == PackInto(r3, at + 268, PackI32(f.size))
                 r5 == PackInto(r4, at + 272, Zeros(4))
                 r6 == PackInto(r5, at + 280, PackI32(t.val))
                 r7 == PackInto(r6, at + 284, DigitChar(f.CRC_flag))
                 r8 == PackInto(r7, at + 265, f.CRC)
                 r9 == PackInto(r8, at + 289, DigitChar(f.is_executable))
                 r10 == PackInto(r9, at + 290, Zeros(26))
             IN  Ok(r10)

\* for i in self.content: self.saveEntryCore(i, temp)
RECURSIVE SaveEntryCores(_, _, _)
SaveEntryCores(kids, temp, i) ==
    IF i > Len(kids)
    THEN Ok(temp)
    ELSE LET r == SaveEntryCore(kids[i], temp)
         IN  IF ~r.ok THEN r ELSE SaveEntryCores(kids, r.val, i + 1)

RECURSIVE Save(_, _, _)
RECURSIVE SaveContents(_, _, _, _, _)

\* for i in self.content: self.saveContent(i, temp).  d is the directory with
\* the children updated so far (del f.content), pos its content_pos.
SaveContents(d, pos, strm, temp, i) ==
    IF i > Len(d.content)
    THEN SaveOk(temp, d)
    ELSE LET f == d.content[i]
             cp == ChildPos(pos, d.count, f.offset_to_file)
         IN  IF ~f.isDir
             THEN LET c == ContentGet(f.mcontent, [none |-> FALSE, v |-> cp], f.size,
                                      TRUE, strm, 0)
                      grown == temp \o Zeros(f.size)
                  IN  IF ~c.ok
                      THEN SaveErr(c.err, d)
                      ELSE SaveContents(
                               [d EXCEPT !.content[i].mcontent = ContentDel(@)],
                               pos, strm, SliceAssign(grown, cp, SatAdd(cp, f.size), c.val), i + 1)
             ELSE LET sub == Save(f, cp, strm)
                  IN  IF ~sub.ok
                      THEN SaveErr(sub.err, [d EXCEPT !.content[i] = sub.node])
                      ELSE SaveContents([d EXCEPT !.content[i] = sub.node],
                                        pos, strm, temp \o sub.bytes, i + 1)

\* save() of the directory d whose content_pos is pos
Save(d, pos, strm) ==
    LET h == SaveHeader(d)
        header == IF h.ok THEN decryptHeader(h.val) ELSE h
        cores == IF header.ok THEN SaveEntryCores(d.content, header.val, 1) ELSE header
    IN  IF ~cores.ok
        THEN SaveErr(cores.err, d)
        ELSE SaveContents(d, pos, strm, cores.val, 1)

(***************************************************************************)
(* The filesystem collaborator (os.*, open, shutil.rmtree).  A path is a   *)
(* sequence of names, a name a byte string; <<>> is the root directory.    *)
(* A filename as the program holds it is [abs, parts]: absolute, or        *)
(* relative to the working directory.  All names are ASCII, which toUtf8   *)
(* and decode leave unchanged.                                             *)
(***************************************************************************)
NoFiles == [q \in {} |-> 0]
DotDot == <<46, 46>>
Dot == 46
DirNode == [kind |-> "dir", data |-> <<>>]
FileNode(b) == [kind |-> "file", data |-> b]

Exists(f, q) == q = <<>> \/ q \in DOMAIN f
IsDirAt(f, q) == q = <<>> \/ (q \in DOMAIN f /\ f[q].kind = "dir")
IsFileAt(f, q) == q \in DOMAIN f /\ f[q].kind = "file"
IsPrefix(q, r) == Len(q) <= Len(r) /\ SubSeq(r, 1, Len(q)) = q
Parent(q) == SubSeq(q, 1, Len(q) - 1)
Rel(name) == [abs |-> FALSE, parts |-> <<name>>]

\* the absolute path a filename denotes in working directory c
RECURSIVE Walk(_, _, _)
Walk(q, parts, i) ==
    IF i > Len(parts) THEN q
    ELSE IF parts[i] = DotDot THEN Walk(Parent(q), parts, i + 1)
    ELSE Walk(Append(q, parts[i]), parts, i + 1)
Resolve(c, name) == Walk(IF name.abs THEN <<>> ELSE c, name.parts, 1)

FsPut(f, q, v) == [r \in DOMAIN f \cup {q} |-> IF r = q THEN v ELSE f[r]]
FsRemoveTree(f, q) == [r \in {x \in DOMAIN f : ~IsPrefix(q, x)} |-> f[r]]
FsMoveTree(f, src, dst) ==
    LET kept == {x \in DOMAIN f : ~IsPrefix(src, x) /\ ~IsPrefix(dst, x)}
        moved == {x \in DOMAIN f : IsPrefix(src, x)}
        To(x) == dst \o SubSeq(x, Len(src) + 1, Len(x))
    IN  [r \in kept \cup {To(x) : x \in moved} |->
            IF r \in kept THEN f[r]
            ELSE f[CHOOSE x \in moved : To(x) = r]]

FsOk(f) == [ok |-> TRUE, err |-> "none", fs |-> f]
FsErr(e, f) == [ok |-> FALSE, err |-> e, fs |-> f]

\* os.replace(src, dst): an existing file at dst is replaced silently
OsReplace(f, src, dst, deny) ==
    IF deny THEN FsErr("PermissionError", f)
    ELSE IF ~(src \in DOMAIN f) THEN FsErr("FileNotFoundError", f)
    ELSE IF ~IsDirAt(f, Parent(dst)) THEN FsErr("FileNotFoundError", f)
    ELSE IF src = dst THEN FsOk(f)
    ELSE IF f[src].kind = "file" /\ IsDirAt(f, dst) THEN FsErr("IsADirectoryError", f)
    ELSE IF f[src].kind = "dir" /\ IsFileAt(f, dst) THEN FsErr("NotADirectoryError", f)
    ELSE IF f[src].kind = "dir" /\ (\E x \in DOMAIN f : IsPrefix(dst, x) /\ x # dst)
    THEN FsErr("OSError", f)
    ELSE FsOk(FsMoveTree(f, src, dst))

\* os.mkdir(q)
OsMkdir(f, q) ==
    IF Exists(f, q) THEN FsErr("FileExistsError", f)
    ELSE IF ~IsDirAt(f, Parent(q)) THEN FsErr("FileNotFoundError", f)
    ELSE FsOk(FsPut(f, q, DirNode))

\* open(q, "wb"): the file is created or truncated
OpenWrite(f, q) ==
    IF IsDirAt(f, q) THEN FsErr("IsADirectoryError", f)
    ELSE IF ~IsDirAt(f, Parent(q)) THEN FsErr("FileNotFoundError", f)
    ELSE FsOk(FsPut(f, q, FileNode(<<>>)))

\* os.unlink(q)
OsUnlink(f, q) ==
    IF ~Exists(f, q) THEN FsErr("FileNotFoundError", f)
    ELSE IF IsDirAt(f, q) THEN FsErr("IsADirectoryError", f)
    ELSE FsOk(FsRemoveTree(f, q))

(***************************************************************************)
(* C4GroupDirectory.explode                                                *)
(***************************************************************************)
\* index of the first "." in a name, 0 if there is none
RECURSIVE FirstDot(_, _)
FirstDot(name, k) ==
    IF k > Len(name) THEN 0 ELSE IF name[k] = Dot THEN k ELSE FirstDot(name, k + 1)

\* b".000"
BackupSuffix == <<46, 48, 48, 48>>

\* self.toUtf8(self.filename).split(b".")[0] + b".000", on the filename as
\* one string: everything from the first "." on is dropped
RECURSIVE BackupParts(_, _)
BackupParts(parts, i) ==
    IF i = Len(parts) \/ FirstDot(parts[i], 1) > 0
    THEN LET k == FirstDot(parts[i], 1)
             stem == IF k = 0 THEN parts[i] ELSE SubSeq(parts[i], 1, k - 1)
         IN  Append(SubSeq(parts, 1, i - 1), stem \o BackupSuffix)
    ELSE BackupParts(parts, i + 1)
BackupFile(name) == [abs |-> name.abs, parts |-> BackupParts(name.parts, 1)]

RunOk(f, c) == [ok |-> TRUE, err |-> "none", fs |-> f, cwd |-> c]
RunErr(e, f, c) == [ok |-> FALSE, err |-> e, fs |-> f, cwd |-> c]

\* explode(level=0), lines 229-234: the rename of the archive to the backup
ExplodeBackupStep(name, f, c, deny) ==
    LET r == OsReplace(f, Resolve(c, name), Resolve(c, BackupFile(name)), deny)
    IN  IF r.ok THEN RunOk(r.fs, c) ELSE RunErr("C4GroupError", f, c)

RECURSIVE ExplodeDir(_, _, _, _, _, _)
RECURSIVE ExplodeKids(_, _, _, _, _, _, _)

\* for f in self.content: ...   here is the directory made for d (the local
\* cwd of explode), cur the working directory, i the next child.
ExplodeKids(d, pos, f, here, cur, strm, i) ==
    IF i > Len(d.content)
    THEN RunOk(f, cur)
    ELSE LET e == d.content[i]
             cp == ChildPos(pos, d.count, e.offset_to_file)
         IN  IF e.isDir
             THEN LET r == ExplodeDir(e, Rel(e.filename), cp, f, here, strm)
                  IN  IF ~r.ok THEN r
                      ELSE ExplodeKids(d, pos, r.fs, here, r.cwd, strm, i + 1)
             ELSE LET o == OpenWrite(f, Append(here, e.filename))
                      c == ContentGet(e.mcontent, [none |-> FALSE, v |-> cp], e.size,
                                      TRUE, strm, 0)
                  IN  IF ~o.ok THEN RunErr(o.err, f, here)
                      ELSE IF ~c.ok THEN RunErr(c.err, o.fs, here)
                      ELSE ExplodeKids(d, pos,
                                       FsPut(o.fs, Append(here, e.filename), FileNode(c.val)),
                                       here, here, strm, i + 1)

\* explode(), lines 235-246: os.mkdir, os.chdir and the loop over the children
ExplodeDir(d, name, pos, f, c, strm) ==
    LET here == Resolve(c, name)
        mk == OsMkdir(f, here)
    IN  IF ~mk.ok THEN RunErr(mk.err, f, c)
        ELSE ExplodeKids(d, pos, mk.fs, here, here, strm, 1)

\* explode(level=0), lines 248-250: os.unlink(backup_file); os.chdir("..")
ExplodeFinishStep(name, f, c) ==
    LET r == OsUnlink(f, Resolve(c, BackupFile(name)))
    IN  IF ~r.ok THEN RunErr(r.err, f, c) ELSE RunOk(r.fs, Parent(c))

(***************************************************************************)
(* C4GroupDirectory.pack / saveToFile                                      *)
(***************************************************************************)
PackOk(d, f, c) == [ok |-> TRUE, err |-> "none", node |-> d, fs |-> f, cwd |-> c]
PackErr(e, d, f, c) == [ok |-> FALSE, err |-> e, node |-> d, fs |-> f, cwd |-> c]

\* gzip.compress(temp) with bytes 0 and 1 set to 0x1e 0x8c; the compressed
\* payload is stood for by the bytes themselves
Envelope(b) == <<30, 140>> \o b

\* the list without its element at index k (0-based): self.content.remove(entry)
RemoveAt(q, k) == SubSeq(q, 1, k) \o SubSeq(q, k + 2, Len(q))

\* lines 264-269 for a C4GroupFile entry e of the directory at pos with count
\* cnt: content is set from the file's bytes, size from len(entry.content)
\* (the getter), offset_to_file from content_pos
PackFileEntry(e, pos, cnt, data, strm) ==
    LET m == ContentSet(e.mcontent, TRUE, data)
        cp == ChildPos(pos, cnt, e.offset_to_file)
        g == ContentGet(m, [none |-> FALSE, v |-> cp], e.size, TRUE, strm, 0)
    IN  IF ~g.ok
        THEN [ok |-> FALSE, err |-> g.err, node |-> [e EXCEPT !.mcontent = m]]
        ELSE [ok |-> TRUE, err |-> "none",
              node |-> [e EXCEPT !.mcontent = m,
                                 !.size = Len(g.val),
                                 !.offset_to_file = cp - ChildPos(pos, cnt, 0)]]

RECURSIVE PackDir(_, _, _, _, _, _, _)
RECURSIVE PackKids(_, _, _, _, _, _, _)

\* for entry in self.content: ...   The list iterator holds an index i
\* (0-based) into the list as it is now; removing the entry at i moves the
\* next entry to i while the iterator goes on to i + 1.
PackKids(d, pos, f, here, strm, level, i) ==
    IF i >= Len(d.content)
    THEN PackOk(d, f, here)
    ELSE LET e == d.content[i + 1]
             q == Append(here, e.filename)
         IN  IF IsDirAt(f, q)
             THEN IF ~e.isDir
                  THEN PackErr("AttributeError", d, f, here)
                  ELSE LET r == PackDir(e, Rel(e.filename), level + 1,
                                        ChildPos(pos, d.count, e.offset_to_file),
                                        f, here, strm)
                           d2 == [d EXCEPT !.content[i + 1] = r.node]
                       IN  IF ~r.ok THEN PackErr(r.err, d2, r.fs, r.cwd)
                           ELSE PackKids(d2, pos, r.fs, here, strm, level, i + 1)
             ELSE IF IsFileAt(f, q)
             THEN LET r == PackFileEntry(e, pos, d.count, f[q].data, strm)
                      d2 == [d EXCEPT !.content[i + 1] = r.node]
                  IN  IF ~r.ok THEN PackErr(r.err, d2, f, here)
                      ELSE PackKids(d2, pos, FsRemoveTree(f, q), here, strm, level, i + 1)
             ELSE PackKids([d EXCEPT !.content = RemoveAt(@, i)],
                           pos, f, here, strm, level, i + 1)

\* saveToFile(), lines 220-226: sv is the result of save(), o of open(.., "wb")
SaveToFileWrite(sv, o, name, f, c) ==
    IF ~sv.ok THEN PackErr(sv.err, sv.node, f, c)
    ELSE IF ~o.ok THEN PackErr(o.err, sv.node, f, c)
    ELSE PackOk(sv.node, FsPut(o.fs, Resolve(c, name), FileNode(Envelope(sv.bytes))), c)

\* saveToFile(): the archive is written at the object's filename
SaveToFile(d, name, f, c, strm) ==
    SaveToFileWrite(Save(d, 0, strm), OpenWrite(f, Resolve(c, name)), name, f, c)

\* pack(), lines 273-282, after the loop over the children returned r: the
\* directory is removed and, at level 0, the archive written in its place
PackFinish(r, name, level, here, c, strm) ==
    IF ~r.ok THEN r
    ELSE IF level # 0 THEN PackOk(r.node, r.fs, c)
    ELSE SaveToFile(r.node, name, FsRemoveTree(r.fs, here), c, strm)

\* pack(level) of the directory object d named name, with content_pos pos,
\* called in working directory c
PackDir(d, name, level, pos, f, c, strm) ==
    LET probe == IF name.abs THEN Resolve(c, name)
                 ELSE Resolve(c, [abs |-> FALSE, parts |-> <<DotDot>> \o name.parts])
        here == Resolve(c, name)
    IN  IF ~Exists(f, probe)
        THEN PackOk(d, f, c)
        ELSE IF ~Exists(f, here)
        THEN PackErr("FileNotFoundError", d, f, c)
        ELSE IF ~IsDirAt(f, here)
        THEN PackErr("NotADirectoryError", d, f, c)
        ELSE PackFinish(PackKids(d, pos, f, here, strm, level, 0),
                        name, level, here, c, strm)

(***************************************************************************)
(* Specification SpecObf: decryptHeader applied once and twice to byte     *)
(* strings of length around 204.                                           *)
(***************************************************************************)
MaxLenDelta == 1
MaxMul == 3
MaxPokes == 1
Seeds == {0, 18, 237, 255}
PokeAt == {1, 3, 4, 202, 204}

HeaderLens == {0} \cup ((HeaderLen - MaxLenDelta)..(HeaderLen + MaxLenDelta))
Pattern(n, a, b) == [k \in 1..n |-> (a * k + b) % 256]

InitObf ==
    /\ hdr \in {Pattern(n, a, b) : n \in HeaderLens, a \in 0..MaxMul, b \in Seeds}
    /\ hdrOut1 = NoResult
    /\ hdrOut2 = NoResult
    /\ hdrPc = "in"
    /\ poked = 0
    /\ stream = <<>>
    /\ cursor = 0
    /\ ent = NoEntry
    /\ got = NoResult
    /\ streamOps = 0
    /\ lastSet = NoContent
    /\ nOps = 0
    /\ timeT = "time64"
    /\ shape = <<>>
    /\ tree = RootDirectory
    /\ pc = "idle"
    /\ err = "none"
    /\ saved = <<>>
    /\ tree2 = RootDirectory
    /\ err2 = "none"
    /\ fs = NoFiles
    /\ cwd = <<>>
    /\ archive = [abs |-> FALSE, parts |-> <<>>]
    /\ denied = FALSE
    /\ fs0 = NoFiles
    /\ fsPre = NoFiles
    /\ treePre = RootDirectory
    /\ edits = 0
    /\ packs = 0

Poke ==
    /\ hdrPc = "in"
    /\ poked < MaxPokes
    /\ \E k \in PokeAt, v \in Seeds :
        /\ k <= Len(hdr)
        /\ hdr' = [hdr EXCEPT ![k] = v]
    /\ poked' = poked + 1
    /\ UNCHANGED <<hdrOut1, hdrOut2, hdrPc, stream, cursor, accVars, codecVars, fsVars>>

DecryptOnce ==
    /\ hdrPc = "in"
    /\ hdrOut1' = decryptHeader(hdr)
    /\ hdrPc' = "once"
    /\ UNCHANGED <<hdr, hdrOut2, poked, stream, cursor, accVars, codecVars, fsVars>>

DecryptTwice ==
    /\ hdrPc = "once"
    /\ hdrOut1.ok
    /\ hdrOut2' = decryptHeader(hdrOut1.val)
    /\ hdrPc' = "twice"
    /\ UNCHANGED <<hdr, hdrOut1, poked, stream, cursor, accVars, codecVars, fsVars>>

NextObf == Poke \/ DecryptOnce \/ DecryptTwice

SpecObf == InitObf /\ [][NextObf]_vars

\* The source position (1-based) whose byte lands at position k.
SwapPartner(k) == IF k % 3 = 1 THEN k + 2 ELSE IF k % 3 = 0 THEN k - 2 ELSE k

\* C2: decryptHeader is an involution on 204-byte headers (swap bytes i and
\* i+2 for i = 0, 3, 6, ..., then XOR every byte with 0xED), and it raises
\* C4GroupError for every input whose length is not exactly 204.
C2_Involution ==
    /\ (hdrPc # "in" /\ Len(hdr) # HeaderLen) =>
            (~hdrOut1.ok /\ hdrOut1.err = "C4GroupError")
    /\ (hdrPc # "in" /\ Len(hdr) = HeaderLen) =>
            /\ hdrOut1.ok
            /\ Len(hdrOut1.val) = HeaderLen
            /\ \A k \in 1..HeaderLen :
                    hdrOut1.val[k] = Xor(hdr[SwapPartner(k)], XorKey)
    /\ hdrPc = "twice" => (hdrOut2.ok /\ hdrOut2.val = hdr)

C2_Witness ==
    /\ hdrPc = "twice"
    /\ hdrOut2.ok
    /\ hdrOut1.val # hdr
    /\ hdr[1] # hdr[3]

(***************************************************************************)
(* Specification SpecContent: one C4GroupFile, with or without an owning   *)
(* directory, under content set / delete / read.                           *)
(***************************************************************************)
MaxSize == 2
MaxOff == 1
MaxAccOps == 3
AccStreamLen == 523
Values == {<<>>, <<7>>, <<8, 9>>}

InitContent ==
    /\ hdr = <<>>
    /\ hdrOut1 = NoResult
    /\ hdrOut2 = NoResult
    /\ hdrPc = "idle"
    /\ poked = 0
    /\ stream = Pattern(AccStreamLen, 1, 0)
    /\ cursor \in {0, 5}
    /\ \E hp \in BOOLEAN, fo \in BOOLEAN, sz \in 0..MaxSize, off \in 0..MaxOff :
            ent = [hasParent |-> hp, parentPos |-> 0, parentCount |-> IF hp THEN 1 ELSE 0,
                   hasFileobj |-> fo \/ hp, size |-> sz, offset_to_file |-> off,
                   mcontent |-> NoContent]
    /\ got = NoResult
    /\ streamOps = 0
    /\ lastSet = NoContent
    /\ nOps = 0
    /\ timeT = "time64"
    /\ shape = <<>>
    /\ tree = RootDirectory
    /\ pc = "idle"
    /\ err = "none"
    /\ saved = <<>>
    /\ tree2 = RootDirectory
    /\ err2 = "none"
    /\ fs = NoFiles
    /\ cwd = <<>>
    /\ archive = [abs |-> FALSE, parts |-> <<>>]
    /\ denied = FALSE
    /\ fs0 = NoFiles
    /\ fsPre = NoFiles
    /\ treePre = RootDirectory
    /\ edits = 0
    /\ packs = 0

SetContent ==
    /\ nOps < MaxAccOps
    /\ \E isBytes \in BOOLEAN, v \in Values :
        /\ ent' = [ent EXCEPT !.mcontent = ContentSet(ent.mcontent, isBytes, v)]
        /\ lastSet' = IF isBytes THEN SomeContent(v) ELSE lastSet
    /\ got' = NoResult
    /\ nOps' = nOps + 1
    /\ UNCHANGED <<obfVars, stream, cursor, streamOps, codecVars, fsVars>>

DelContent ==
    /\ nOps < MaxAccOps
    /\ ent' = [ent EXCEPT !.mcontent = ContentDel(ent.mcontent)]
    /\ lastSet' = NoContent
    /\ got' = NoResult
    /\ nOps' = nOps + 1
    /\ UNCHANGED <<obfVars, stream, cursor, streamOps, codecVars, fsVars>>

ReadContent ==
    /\ nOps < MaxAccOps
    /\ LET r == ContentGet(ent.mcontent, EntContentPos(ent), ent.size,
                           ent.hasFileobj, stream, cursor)
       IN  /\ got' = [ok |-> r.ok, err |-> r.err, val |-> r.val]
           /\ cursor' = r.cursor
           /\ streamOps' = r.ops
    /\ nOps' = nOps + 1
    /\ UNCHANGED <<obfVars, stream, ent, lastSet, codecVars, fsVars>>

NextContent == SetContent \/ DelContent \/ ReadContent

SpecContent == InitContent /\ [][NextContent]_vars

\* A read has just been performed.
JustRead == got.err # "notrun"

\* C7: a read returns the most recently set bytes value, for every bytes
\* value including the empty byte string, if content was set and not cleared
\* since, without touching the stream; otherwise it returns the size bytes at
\* content_pos of the stream.
C7_MaterializedFirst ==
    (JustRead /\ ent.hasFileobj) =>
        IF lastSet.mset
        THEN got.ok /\ got.val = lastSet.mbytes /\ streamOps = 0
        ELSE got.ok /\ got.val = Slice(stream, EntContentPos(ent).v,
                                         EntContentPos(ent).v + ent.size)

\* C9: reading the content of a leaf with no materialized bytes and no owning
\* directory fails with C4GroupError("Invalid content position!") and performs
\* no seek or read on the stream.
C9_InvalidContentPosition ==
    (JustRead /\ ~ent.hasParent /\ ~lastSet.mset) =>
        (~got.ok /\ got.err = "C4GroupError" /\ streamOps = 0)

(***************************************************************************)
(* Well-formed archives: the byte layout load() reads, built from a shape  *)
(* (a sequence of items, each a leaf with its bytes or a directory with    *)
(* its own items), with every offset_to_file the sum of the sizes of the   *)
(* blocks before it.  An item's time is the 4 bytes of its timestamp.      *)
(***************************************************************************)
LeafItem(name, data, t) ==
    [name |-> name, isDir |-> FALSE, data |-> data, kids |-> <<>>, time |-> t]
DirItem(name, kids, t) ==
    [name |-> name, isDir |-> TRUE, data |-> <<>>, kids |-> kids, time |-> t]

\* b"Tester"
TesterName == <<84, 101, 115, 116, 101, 114>>

WfHeader(cnt, t) ==
    LET t0 == PackInto(Zeros(HeaderLen), 0, PadTo(Magic, 25))
        t1 == PackInto(t0, 28, LE(1, 4) \o LE(0, 4))
        t2 == PackInto(t1, 36, LE(cnt, 4))
        t3 == PackInto(t2, 40, PadTo(TesterName, 32))
        t4 == PackInto(t3, 104, t)
        t5 == PackInto(t4, 108, LE(OriginalMagic, 4))
    IN  decryptHeader(t5).val

WfRecord(name, isDir, sz, off, t) ==
    LET r0 == PackInto(Zeros(EntrySize), 0, PadTo(name, 257))
        r1 == PackInto(r0, 260, LE(1, 4))
        r2 == PackInto(r1, 264, LE(IF isDir THEN 1 ELSE 0, 4))
        r3 == PackInto(r2, 268, LE(sz, 4))
        r4 == PackInto(r3, 276, LE(off, 4))
        r5 == PackInto(r4, 280, t)
    IN  r5

RECURSIVE WfArchive(_, _)
RECURSIVE WfBlocks(_, _)
RECURSIVE WfRecords(_, _, _)

WfBlock(item) == IF item.isDir THEN WfArchive(item.kids, item.time) ELSE item.data

\* the blocks of items i.. concatenated
WfBlocks(items, i) ==
    IF i > Len(items) THEN <<>> ELSE WfBlock(items[i]) \o WfBlocks(items, i + 1)

\* the records of items i.., the first of them at offset off
WfRecords(items, i, off) ==
    IF i > Len(items)
    THEN <<>>
    ELSE LET sz == Len(WfBlock(items[i]))
         IN  WfRecord(items[i].name, items[i].isDir, sz, off, items[i].time)
                 \o WfRecords(items, i + 1, off + sz)

WfArchive(items, t) ==
    WfHeader(Len(items), t) \o WfRecords(items, 1, 0) \o WfBlocks(items, 1)

(***************************************************************************)
(* Specification SpecCodec: load a well-formed archive, save the tree,     *)
(* load the saved bytes.                                                   *)
(***************************************************************************)
MaxKids == 2
\* the timestamps 1000 and 2^31, the latter beyond a 32-bit time_t
NormalTime == <<232, 3, 0, 0>>
LateTime == <<0, 0, 0, 128>>

NameA == <<97>>
NameB == <<98>>
NameC == <<99>>
NameSub == <<83>>
Times == {NormalTime, LateTime}

LeafItems ==
    {LeafItem(NameA, <<1>>, t) : t \in Times} \cup {LeafItem(NameB, <<2, 3>>, t) : t \in Times}
DirItems ==
    {DirItem(NameSub, k, NormalTime) :
        k \in {<<>>, <<LeafItem(NameC, <<4>>, NormalTime)>>,
               <<LeafItem(NameC, <<4>>, NormalTime), LeafItem(NameA, <<5, 6>>, NormalTime)>>}}
Items == LeafItems \cup DirItems

\* sequences of at most n items with distinct names
RECURSIVE ItemSeqs(_)
ItemSeqs(n) ==
    IF n = 0
    THEN {<<>>}
    ELSE LET shorter == ItemSeqs(n - 1)
         IN  shorter \cup
             {Append(q, it) : q \in {x \in shorter : Len(x) = n - 1},
                              it \in Items}

DistinctNames(q) == \A i, j \in 1..Len(q) : i # j => q[i].name # q[j].name
Shapes == {q \in ItemSeqs(MaxKids) : DistinctNames(q)}

InitCodec ==
    /\ hdr = <<>>
    /\ hdrOut1 = NoResult
    /\ hdrOut2 = NoResult
    /\ hdrPc = "idle"
    /\ poked = 0
    /\ cursor = 0
    /\ ent = NoEntry
    /\ got = NoResult
    /\ streamOps = 0
    /\ lastSet = NoContent
    /\ nOps = 0
    /\ timeT \in {"time32", "time64"}
    /\ shape \in Shapes
    /\ \E t \in Times : stream = WfArchive(shape, t)
    /\ tree = RootDirectory
    /\ pc = "new"
    /\ err = "none"
    /\ saved = <<>>
    /\ tree2 = RootDirectory
    /\ err2 = "none"
    /\ fs = NoFiles
    /\ cwd = <<>>
    /\ archive = [abs |-> FALSE, parts |-> <<>>]
    /\ denied = FALSE
    /\ fs0 = NoFiles
    /\ fsPre = NoFiles
    /\ treePre = RootDirectory
    /\ edits = 0
    /\ packs = 0

\* root.load()
DoLoad ==
    /\ pc = "new"
    /\ LET r == Load(tree, 0, stream, timeT)
       IN  /\ tree' = r.node
           /\ err' = r.err
    /\ pc' = "loaded"
    /\ UNCHANGED <<obfVars, stream, cursor, accVars, timeT, shape, saved, tree2, err2, fsVars>>

\* root.save()
DoSave ==
    /\ pc = "loaded"
    /\ err = "none"
    /\ LET r == Save(tree, 0, stream)
       IN  /\ tree' = r.node
           /\ err' = r.err
           /\ saved' = r.bytes
    /\ pc' = "saved"
    /\ UNCHANGED <<obfVars, stream, cursor, accVars, timeT, shape, tree2, err2, fsVars>>

\* C4GroupDirectory(name, BytesIO(saved)).load()
DoReload ==
    /\ pc = "saved"
    /\ err = "none"
    /\ LET r == Load(RootDirectory, 0, saved, timeT)
       IN  /\ tree2' = r.node
           /\ err2' = r.err
    /\ pc' = "reloaded"
    /\ UNCHANGED <<obfVars, stream, cursor, accVars, timeT, shape, tree, err, saved, fsVars>>

NextCodec == DoLoad \/ DoSave \/ DoReload

SpecCodec == InitCodec /\ [][NextCodec]_vars

\* two trees agree in filenames, sizes, flags, timestamps, offsets and child
\* order at every depth
RECURSIVE SameTree(_, _)
SameTree(x, y) ==
    /\ x.isDir = y.isDir
    /\ x.filename = y.filename
    /\ x.size = y.size
    /\ x.offset_to_file = y.offset_to_file
    /\ x.time = y.time
    /\ x.CRC_flag = y.CRC_flag
    /\ x.CRC = y.CRC
    /\ x.is_executable = y.is_executable
    /\ Len(x.content) = Len(y.content)
    /\ \A i \in 1..Len(x.content) : SameTree(x.content[i], y.content[i])

\* C1: loading the bytes returned by save(T) produces a tree equal to T in
\* filenames, sizes, flags, timestamps, offset_to_file values and child order
\* at every nesting depth.
C1_RoundTrip ==
    pc = "reloaded" => (err2 = "none" /\ SameTree(tree, tree2))

\* the names of the children of a loaded directory against those of a shape,
\* at every depth
RECURSIVE LoadedAll(_, _)
LoadedAll(d, items) ==
    /\ Len(d.content) = Len(items)
    /\ \A i \in 1..Len(items) :
        /\ d.content[i].filename = items[i].name
        /\ d.content[i].isDir = items[i].isDir
        /\ d.content[i].size = Len(WfBlock(items[i]))
        /\ items[i].isDir => LoadedAll(d.content[i], items[i].kids)
        /\ d.content[i].time =
                (IF Representable(FromLE(items[i].time), timeT)
                 THEN localtime(FromLE(items[i].time), timeT).val
                 ELSE TimeDefault)

\* C8: a timestamp outside the representable range, in the directory header
\* or in any entry record, does not abort load(): the time field is left at
\* its default and all remaining fields and entries are still loaded.
C8_TimestampTolerated ==
    pc = "loaded" => (err = "none" /\ LoadedAll(tree, shape))

(***************************************************************************)
(* Specification SpecExplode: an archive file in the working directory,    *)
(* loaded and exploded.  The name <stem>.000 may be free, taken by a file  *)
(* or taken by a directory, and the filesystem may refuse the rename.      *)
(***************************************************************************)
\* the working directory /w, the archive g.c, its backup g.000
WorkDir == <<<<119>>>>
ArchiveName == <<103, 46, 99>>
BackupName == <<103, 46, 48, 48, 48>>
Precious == <<112>>

ArchiveNames == {[abs |-> FALSE, parts |-> <<ArchiveName>>],
                 [abs |-> TRUE, parts |-> Append(WorkDir, ArchiveName)]}
BackupStates == {"free", "file", "dir"}

StartFs(strm, backup) ==
    LET base == FsPut(FsPut(NoFiles, WorkDir, DirNode),
                      Append(WorkDir, ArchiveName), FileNode(Envelope(strm)))
    IN  IF backup = "file" THEN FsPut(base, Append(WorkDir, BackupName), FileNode(Precious))
        ELSE IF backup = "dir" THEN FsPut(base, Append(WorkDir, BackupName), DirNode)
        ELSE base

InitFs(shapes, backups, denials, platforms) ==
    /\ hdr = <<>>
    /\ hdrOut1 = NoResult
    /\ hdrOut2 = NoResult
    /\ hdrPc = "idle"
    /\ poked = 0
    /\ cursor = 0
    /\ ent = NoEntry
    /\ got = NoResult
    /\ streamOps = 0
    /\ lastSet = NoContent
    /\ nOps = 0
    /\ timeT \in platforms
    /\ shape \in shapes
    /\ stream = WfArchive(shape, NormalTime)
    /\ tree = RootDirectory
    /\ pc = "new"
    /\ err = "none"
    /\ saved = <<>>
    /\ tree2 = RootDirectory
    /\ err2 = "none"
    /\ \E b \in backups : fs = StartFs(stream, b)
    /\ cwd = WorkDir
    /\ archive \in ArchiveNames
    /\ denied \in denials
    /\ fs0 = fs
    /\ fsPre = NoFiles
    /\ treePre = RootDirectory
    /\ edits = 0
    /\ packs = 0

InitExplode == InitFs(Shapes, BackupStates, BOOLEAN, {"time64"})

\* root = C4GroupDirectory(archive); root.load()
FsLoad ==
    /\ pc = "new"
    /\ LET r == Load(tree, 0, stream, timeT)
       IN  /\ tree' = r.node
           /\ err' = r.err
           /\ pc' = IF r.ok THEN "loaded" ELSE "raised"
    /\ UNCHANGED <<obfVars, stream, cursor, accVars, timeT, shape, saved, tree2, err2, fsVars>>

\* root.explode(), up to the rename
ExplodeBackup ==
    /\ pc = "loaded"
    /\ LET r == ExplodeBackupStep(archive, fs, cwd, denied)
       IN  /\ fs' = r.fs
           /\ cwd' = r.cwd
           /\ err' = r.err
           /\ pc' = IF r.ok THEN "backedup" ELSE "raised_backup"
    /\ fs0' = fs
    /\ UNCHANGED <<obfVars, stream, cursor, accVars, timeT, shape, tree, saved, tree2, err2,
                   archive, denied, fsPre, treePre, edits, packs>>

\* root.explode(), the directory and its children
ExplodeExtract ==
    /\ pc = "backedup"
    /\ LET r == ExplodeDir(tree, archive, 0, fs, cwd, stream)
       IN  /\ fs' = r.fs
           /\ cwd' = r.cwd
           /\ err' = r.err
           /\ pc' = IF r.ok THEN "extracted" ELSE "raised_extract"
    /\ UNCHANGED <<obfVars, stream, cursor, accVars, timeT, shape, tree, saved, tree2, err2,
                   archive, denied, fs0, fsPre, treePre, edits, packs>>

\* root.explode(), after the loop
ExplodeFinish ==
    /\ pc = "extracted"
    /\ LET r == ExplodeFinishStep(archive, fs, cwd)
       IN  /\ fs' = r.fs
           /\ cwd' = r.cwd
           /\ err' = r.err
           /\ pc' = "exploded"
    /\ UNCHANGED <<obfVars, stream, cursor, accVars, timeT, shape, tree, saved, tree2, err2,
                   archive, denied, fs0, fsPre, treePre, edits, packs>>

NextExplode == FsLoad \/ ExplodeBackup \/ ExplodeExtract \/ ExplodeFinish

SpecExplode == InitExplode /\ [][NextExplode]_vars

ArchivePath == Append(WorkDir, ArchiveName)
BackupPath == Append(WorkDir, BackupName)

\* C5: explode(level=0) renames the archive to <stem>.000 before any directory
\* is created or file written, and after an extraction in which every mkdir
\* and write succeeded the backup is gone and explode returns without error.
C5_BackupLifecycle ==
    /\ (pc \in {"loaded", "backedup"}) =>
            \A q \in DOMAIN fs : q \in DOMAIN fs0 \/ q = BackupPath
    /\ pc = "backedup" => (IsFileAt(fs, BackupPath) /\ ~Exists(fs, ArchivePath))
    /\ pc = "exploded" => (err = "none" /\ ~Exists(fs, BackupPath))

\* explode() has been called and has passed or left the rename
PastRename == pc \in {"backedup", "raised_backup", "raised_extract", "extracted", "exploded"}

\* C6: whenever the archive cannot be renamed or a file named <stem>.000
\* already exists, explode fails with C4GroupError, creates no directory,
\* writes no file and leaves the archive and that file unchanged.
C6_BackupFailure ==
    (PastRename /\ (denied \/ Exists(fs0, BackupPath))) =>
        (pc = "raised_backup" /\ err = "C4GroupError" /\ fs = fs0)

(***************************************************************************)
(* Specification SpecPack: load, explode, edit the exploded tree (files    *)
(* deleted or rewritten with another length, directories deleted), pack.   *)
(***************************************************************************)
MaxEdits == 2
MaxPacks == 2
NewData == {<<>>, <<9, 9, 9>>}

\* the shapes whose timestamps save() can pack with "<i"
PackShapes == {q \in Shapes : \A i \in 1..Len(q) : q[i].time = NormalTime}

InitPack == InitFs(PackShapes, {"free"}, {FALSE}, {"time32", "time64"})

\* the paths below the exploded directory
Exploded == {q \in DOMAIN fs : IsPrefix(ArchivePath, q) /\ q # ArchivePath}

EditDelete ==
    /\ pc = "exploded"
    /\ edits < MaxEdits
    /\ \E q \in Exploded : fs' = FsRemoveTree(fs, q)
    /\ edits' = edits + 1
    /\ UNCHANGED <<obfVars, stream, cursor, accVars, codecVars,
                   cwd, archive, denied, fs0, fsPre, treePre, packs>>

EditWrite ==
    /\ pc = "exploded"
    /\ edits < MaxEdits
    /\ \E q \in Exploded, v \in NewData :
        /\ IsFileAt(fs, q)
        /\ fs[q].data # v
        /\ fs' = FsPut(fs, q, FileNode(v))
    /\ edits' = edits + 1
    /\ UNCHANGED <<obfVars, stream, cursor, accVars, codecVars,
                   cwd, archive, denied, fs0, fsPre, treePre, packs>>

\* root.pack()
DoPack ==
    /\ pc \in {"exploded", "packed"}
    /\ packs < MaxPacks
    /\ LET r == PackDir(tree, archive, 0, 0, fs, cwd, stream)
       IN  /\ tree' = r.node
           /\ fs' = r.fs
           /\ cwd' = r.cwd
           /\ err' = r.err
    /\ pc' = "packed"
    /\ fsPre' = fs
    /\ treePre' = tree
    /\ packs' = packs + 1
    /\ UNCHANGED <<obfVars, stream, cursor, accVars, timeT, shape, saved, tree2, err2,
                   archive, denied, fs0, edits>>

NextPack == NextExplode \/ EditDelete \/ EditWrite \/ DoPack

SpecPack == InitPack /\ [][NextPack]_vars

RECURSIVE SerSize(_)
RECURSIVE SumSizes(_, _)
\* the sum of the serialized sizes of the first n entries of q
SumSizes(q, n) == IF n = 0 THEN 0 ELSE SumSizes(q, n - 1) + SerSize(q[n])
SerSize(e) ==
    IF e.isDir
    THEN HeaderLen + (EntrySize * e.count) + SumSizes(e.content, Len(e.content))
    ELSE e.size

RECURSIVE OffsetsOk(_)
OffsetsOk(d) ==
    \A i \in 1..Len(d.content) :
        /\ d.content[i].offset_to_file = SumSizes(d.content, i - 1)
        /\ d.content[i].isDir => OffsetsOk(d.content[i])

\* the tree is the result of load() or of a pack() that returned
Settled == (pc = "loaded" \/ pc = "packed") /\ err = "none"

\* C3: after loading a well-formed archive and any number of pack() calls,
\* in every directory offset_to_file of entry i is the sum of the serialized
\* sizes of the entries before it.
C3_OffsetInvariant == Settled => OffsetsOk(tree)

RECURSIVE CountsOk(_)
CountsOk(d) ==
    /\ d.count = Len(d.content)
    /\ \A i \in 1..Len(d.content) : d.content[i].isDir => CountsOk(d.content[i])

\* C10: after any sequence of load() and pack(), in every directory the
\* count field equals the number of entries in the child list.
C10_CountMatchesList == Settled => CountsOk(tree)

\* after pack() of the directory `before` backed by path q, `after` holds
\* exactly the children that had a file or directory at pack time, in order,
\* each of them processed
RECURSIVE PackedAll(_, _, _)
PackedAll(before, after, q) ==
    LET Backed(e) == Exists(fsPre, Append(q, e.filename))
        keep == SelectSeq(before.content, Backed)
    IN  /\ Len(after.content) = Len(keep)
        /\ \A i \in 1..Len(keep) :
            LET r == Append(q, keep[i].filename)
            IN  /\ i <= Len(after.content)
                /\ after.content[i].filename = keep[i].filename
                /\ (keep[i].isDir /\ IsDirAt(fsPre, r)) =>
                        PackedAll(keep[i], after.content[i], r)
                /\ (~keep[i].isDir /\ IsFileAt(fsPre, r)) =>
                        after.content[i].size = Len(fsPre[r].data)

\* pack() went into the exploded directory: with a relative filename it never
\* does, it looks for "../<name>" and then changes into "<name>"
PackEntered == pc = "packed" /\ archive.abs /\ IsDirAt(fsPre, ArchivePath)

\* C4: when pack() finishes, every child with neither a file nor a directory
\* behind it has been removed and no error was raised, wherever such entries
\* are in the list; every child with a file or directory is kept and is
\* itself processed.
C4_DeletedOnDisk ==
    PackEntered => (err = "none" /\ PackedAll(treePre, tree, ArchivePath))

====
